---- MODULE Spec2Model ----
(***************************************************************************)
(* Model of src/src/crawler.js: the Crawler object, one traversal started  *)
(* by enter (or getCrawl), the fetch completions delivered by the event    *)
(* loop in any order, and the replies of the crawled nodes.                *)
(*                                                                         *)
(* Strings that the code splits on ':' are modelled by the sequence of     *)
(* their ':'-separated segments: "10.0.0.1:6561" is <<"10.0.0.1","6561">>, *)
(* "10.0.0.1" is <<"10.0.0.1">>.  A falsy string (undefined or "") is      *)
(* <<>>.  A falsy port is "".                                              *)
(***************************************************************************)
EXTENDS Integers, Sequences, FiniteSets, TLC

(* ------------------------------- bounds -------------------------------- *)

\* number of distinct hosts the network holds
NumHosts == 4
\* longest overlay.active list a node reports
MaxPeers == 2
\* largest concurrency cap handed to the constructor
MaxCap == 2

(* ------------------------------- consts -------------------------------- *)

QUEUED == 1
REQUESTING == 2
DEFAULT_PORT == 51235
DefaultMaxRequests == 30

\* the value of an absent property / an undeclared or unset variable
Undefined == "undefined"
\* a global variable: never assigned (reading it throws a ReferenceError), or
\* holding a string
Undeclared == [declared |-> FALSE, value |-> <<>>]
Global(v) == [declared |-> TRUE, value |-> v]

(* ------------------------------ universe ------------------------------- *)

Hosts == {"h" \o ToString(i) : i \in 1..NumHosts}

\* the peer descriptors {ip, port} a node may list in overlay.active:
\* a bare host for every host, and one descriptor without an ip
Descs == {[ip |-> <<h>>, port |-> ""] : h \in Hosts} \cup {[ip |-> <<>>, port |-> ""]}

SeqsUpTo(S, n) == UNION {[1..k -> S] : k \in 0..n}

PeerLists == SeqsUpTo(Descs, MaxPeers)

ErrorCodes == {"ETIMEDOUT"}

\* What the request library hands to the callback of crawlRequest:
\*   err   - an error object, with err.code a code or undefined
\*   text  - the body is not JSON
\*   empty - no body
\*   json  - the body is a JSON document; hasActive says whether it holds
\*           overlay.active, active is that list
ErrReply(c) == [kind |-> "err", code |-> c, hasActive |-> FALSE, active |-> <<>>]
TextReply == [kind |-> "text", code |-> Undefined, hasActive |-> FALSE, active |-> <<>>]
EmptyReply == [kind |-> "empty", code |-> Undefined, hasActive |-> FALSE, active |-> <<>>]
JsonReply(has, ps) == [kind |-> "json", code |-> Undefined, hasActive |-> has, active |-> ps]

Replies ==
  {ErrReply(c) : c \in ErrorCodes \cup {Undefined}}
    \cup {TextReply, EmptyReply, JsonReply(FALSE, <<>>)}
    \cup {JsonReply(TRUE, ps) : ps \in PeerLists}

NotAsked == [kind |-> "notasked", code |-> Undefined, hasActive |-> FALSE, active |-> <<>>]

\* the values a parsed body takes: null, or the document
JsonNull == [json |-> "null", hasActive |-> FALSE, active |-> <<>>]
JsonDoc(has, ps) == [json |-> "object", hasActive |-> has, active |-> ps]
\* an absent key of rawResponses
NoBody == [json |-> "absent", hasActive |-> FALSE, active |-> <<>>]

(* ------------------------------- helpers ------------------------------- *)

withDefaultPort(domainOrIp) ==
  IF Len(domainOrIp) >= 2 THEN domainOrIp
  ELSE domainOrIp \o <<ToString(DEFAULT_PORT)>>

\* the address a crawlUrl names: 'https://' + withDefaultPort(ip) + '/crawl'
crawlUrl(domainOrIp) == withDefaultPort(domainOrIp)

\* normalizeIpp assigns the globals out_ip, out_port and ipp when ip is truthy
\* and returns the global ipp either way; prev is ipp before the call.
\* normalizeIpp with a fault: the port in the ip goes before the port argument
normalizeIpp_embeddedFirst(ip, port, prev) ==
  IF ip # <<>> /\ ip # <<"">>
  THEN LET splitIp == ip[1]
           splitPort == IF Len(ip) >= 2 THEN ip[2] ELSE ""
           out_port == IF splitPort # "" THEN splitPort
                       ELSE IF port # "" THEN port
                       ELSE ToString(DEFAULT_PORT)
       IN Global(<<splitIp, out_port>>)
  ELSE prev

normalizeIpp(ip, port, prev) ==
  IF ip # <<>> /\ ip # <<"">>
  THEN LET splitIp == ip[1]
           splitPort == IF Len(ip) >= 2 THEN ip[2] ELSE ""
           out_port == IF port # "" THEN port
                       ELSE IF splitPort # "" THEN splitPort
                       ELSE ToString(DEFAULT_PORT)
       IN Global(<<splitIp, out_port>>)
  ELSE prev

Addrs == {withDefaultPort(<<h>>) : h \in Hosts}

(* -------------------------------- state -------------------------------- *)

VARIABLES
  proc,             \* the process: "idle" (constructed), "running" (enter was
                    \* called), "exception" (an uncaught exception ended it),
                    \* "exit" (abortIfNot called process.exit)
  maxRequests,      \* this.maxRequests
  currentRequests,  \* this.currentRequests
  rawResponses,     \* this.rawResponses: address -> parsed body, NoBody if absent
  queued,           \* this.queued: the keys in insertion order, each with its status
  errors,           \* this.errors: address -> err.code, Absent if no such key
  ipp,              \* the global ipp that normalizeIpp assigns and returns
  startTime, endTime, \* <<>> while unset, <<t>> once moment().format() was stored
  entryIP,          \* <<>> while unset
  emitted,          \* the payloads of the 'done' events emitted so far
  promise,          \* the promise of getCrawl: "none", "pending" or "resolved"
  outstanding,      \* the fetches issued whose callback has not run: [ipp, hops]
  net,              \* the reply of each address, fixed when it is first asked
  now,              \* the clock read by moment()
  enqueues,         \* address -> number of times enqueue stored it as QUEUED
  fetches,          \* address -> number of fetches issued for it
  peersData,        \* this.peersData: public key -> merged record
  call              \* the last direct call of an exported function or method,
                    \* with its arguments and outcome; NoCall in a traversal

vars == <<proc, maxRequests, currentRequests, rawResponses, queued, errors, ipp,
          startTime, endTime, entryIP, emitted, promise, outstanding, net, now,
          enqueues, fetches, peersData, call>>

NoCall == [op |-> "none"]

\* an absent key of this.errors
Absent == "absent"

\* the values the constructor is given as maxRequests; 0 stands for a falsy one
CapArgs == 0..MaxCap

\* the entry addresses handed to enter / getCrawl
EntryInputs == {<<"h1">>, <<"h1", ToString(DEFAULT_PORT)>>}

\* the public keys, the fields of a view and their values; a view is a map
\* from fields to values, Undefined where it has no such field
PubKeys == {"n1", "n2"}
DataFields == {"type", "ip", "version"}
FieldValues == {"a", "b"}
Views == [DataFields -> FieldValues \cup {Undefined}]

\* this.peersData = {}: no record for any key
NoPeers ==
  [pk \in PubKeys |-> [created |-> FALSE, map |-> [k \in DataFields |-> Undefined]]]

\* savePeerData(pk, data, defaults) on the peersData pd
savePeerData(pd, pk, data, defaults) ==
  LET map == pd[pk].map
      saved == [k \in DataFields |->
                  IF data[k] = Undefined THEN map[k]
                  ELSE IF k = "type" \/ (defaults /\ map[k] # Undefined) THEN map[k]
                  ELSE data[k]]
  IN [pd EXCEPT ![pk] = [created |-> TRUE, map |-> saved]]

Crawler(maxReq) ==
  /\ maxRequests = (IF maxReq # 0 THEN maxReq ELSE DefaultMaxRequests)
  /\ currentRequests = 0
  /\ rawResponses = [a \in Addrs |-> NoBody]
  /\ queued = <<>>
  /\ errors = [a \in Addrs |-> Absent]

Init ==
  /\ \E maxReq \in CapArgs : Crawler(maxReq)
  /\ proc = "idle"
  /\ ipp = Undeclared
  /\ startTime = <<>>
  /\ endTime = <<>>
  /\ entryIP = <<>>
  /\ emitted = <<>>
  /\ promise = "none"
  /\ outstanding = <<>>
  /\ net = [a \in Addrs |-> NotAsked]
  /\ now = 0
  /\ enqueues = [a \in Addrs |-> 0]
  /\ fetches = [a \in Addrs |-> 0]
  /\ peersData = NoPeers
  /\ call = NoCall

(* ---------------------------- queue helpers ---------------------------- *)

\* Keys with a fault: the keys come newest first
Keys_newestFirst(q) == [i \in 1..Len(q) |-> q[Len(q) + 1 - i].ipp]

\* Object.keys(queued)
Keys(q) == [i \in 1..Len(q) |-> q[i].ipp]

KeySet(q) == {q[i].ipp : i \in 1..Len(q)}

\* queued[a] of a key a
Status(q, a) == q[CHOOSE i \in 1..Len(q) : q[i].ipp = a].status

\* queued[a] = st, appended when a is a new key, in place otherwise
SetStatus(q, a, st) ==
  IF a \in KeySet(q)
  THEN [i \in 1..Len(q) |-> IF q[i].ipp = a THEN [ipp |-> a, status |-> st] ELSE q[i]]
  ELSE Append(q, [ipp |-> a, status |-> st])

\* delete queued[a]
DeleteKey(q, a) == SelectSeq(q, LAMBDA e : e.ipp # a)

RemoveAt(sq, i) == [j \in 1..(Len(sq) - 1) |-> IF j < i THEN sq[j] ELSE sq[j + 1]]

(* ------------------- the crawler's methods, on a record ----------------- *)
(* s holds the fields a completion handler reads and writes:               *)
(* proc, currentRequests, outstanding, queued, rawResponses, errors, ipp,  *)
(* enqueues, fetches.  Once s.proc is not "running" the process has ended  *)
(* and the rest of the handler does not run.                               *)

abortIfNot(s, expression) ==
  IF expression THEN s ELSE [s EXCEPT !.proc = "exit"]

enqueue(s, a) ==
  LET t == abortIfNot(s, a \notin KeySet(s.queued))
  IN IF t.proc # "running" THEN t
     ELSE [t EXCEPT !.queued = SetStatus(@, a, QUEUED),
                    !.enqueues[a] = @ + 1]

dequeue(s, a) ==
  LET t == abortIfNot(s, a \in KeySet(s.queued))
  IN IF t.proc # "running" THEN t
     ELSE [t EXCEPT !.queued = DeleteKey(@, a)]

enqueueIfNeeded(s, a) ==
  IF a # <<>>
       /\ s.rawResponses[a] = NoBody
       /\ a \notin KeySet(s.queued)
       /\ s.errors[a] \in {Absent, Undefined}
  THEN enqueue(s, a)
  ELSE s

\* crawl up to the point where the request is sent: queued[ipp] = REQUESTING,
\* then crawlOne's currentRequests++ and crawlRequest
crawl(s, a, hops) ==
  [s EXCEPT !.queued = SetStatus(@, a, REQUESTING),
            !.currentRequests = @ + 1,
            !.outstanding = Append(@, [ipp |-> crawlUrl(a), hops |-> hops]),
            !.fetches[a] = @ + 1]

\* admits with a fault: the slot test compares with <= instead of <
admits_offByOne(s, queuedIpp, maxReq) ==
  /\ s.currentRequests <= maxReq
  /\ queuedIpp \in KeySet(s.queued)
  /\ Status(s.queued, queuedIpp) = QUEUED

\* admits with a fault: the status of queuedIpp is not tested
admits_anyStatus(s, queuedIpp, maxReq) ==
  /\ s.currentRequests < maxReq
  /\ queuedIpp \in KeySet(s.queued)

\* the test of requestMore's loop body: a free slot, and queuedIpp still QUEUED
admits(s, queuedIpp, maxReq) ==
  /\ s.currentRequests < maxReq
  /\ queuedIpp \in KeySet(s.queued)
  /\ Status(s.queued, queuedIpp) = QUEUED

\* the forEach of requestMore over the snapshot ipps, from its i-th key on
RECURSIVE requestMoreFrom(_, _, _, _, _)
\* requestMoreFrom with a fault: the loop ends after the first admission
requestMoreFrom_oneOnly(s, ipps, i, hops, maxReq) ==
  IF i > Len(ipps) THEN s
  ELSE LET queuedIpp == ipps[i]
       IN IF admits(s, queuedIpp, maxReq)
          THEN crawl(s, queuedIpp, hops + 1)
          ELSE requestMoreFrom(s, ipps, i + 1, hops, maxReq)

requestMoreFrom(s, ipps, i, hops, maxReq) ==
  IF i > Len(ipps) THEN s
  ELSE LET queuedIpp == ipps[i]
           t == IF admits(s, queuedIpp, maxReq)
                THEN crawl(s, queuedIpp, hops + 1)
                ELSE s
       IN requestMoreFrom(t, ipps, i + 1, hops, maxReq)

\* requestMore with a fault: it returns whether some address of the snapshot
\* was still QUEUED, instead of whether the snapshot held any key
requestMore_onlyQueued(s, hops, maxReq) ==
  LET ipps == Keys(s.queued)
  IN [state |-> requestMoreFrom(s, ipps, 1, hops, maxReq),
      more |-> \E k \in 1..Len(ipps) : Status(s.queued, ipps[k]) = QUEUED]

\* requestMore: the state after it, and its return value ipps.length !== 0
requestMore(s, hops, maxReq) ==
  LET ipps == Keys(s.queued)
  IN [state |-> requestMoreFrom(s, ipps, 1, hops, maxReq), more |-> Len(ipps) # 0]

\* body.overlay.active.forEach(p => enqueueIfNeeded(normalizeIpp(p.ip, p.port))),
\* from the i-th peer on; normalizeIpp reading the undeclared global throws
RECURSIVE forEachPeer(_, _, _)
\* forEachPeer with a fault: the loop stops one peer short
forEachPeer_skipLast(s, active, i) ==
  IF i >= Len(active) \/ s.proc # "running" THEN s
  ELSE LET r == normalizeIpp(active[i].ip, active[i].port, s.ipp)
       IN IF r = Undeclared
          THEN [s EXCEPT !.proc = "exception"]
          ELSE forEachPeer(enqueueIfNeeded([s EXCEPT !.ipp = r], r.value), active, i + 1)

forEachPeer(s, active, i) ==
  IF i > Len(active) \/ s.proc # "running" THEN s
  ELSE LET r == normalizeIpp(active[i].ip, active[i].port, s.ipp)
       IN IF r = Undeclared
          THEN [s EXCEPT !.proc = "exception"]
          ELSE forEachPeer(enqueueIfNeeded([s EXCEPT !.ipp = r], r.value), active, i + 1)

(* ------------------------------- actions ------------------------------- *)

Self ==
  [proc |-> proc, currentRequests |-> currentRequests, outstanding |-> outstanding,
   queued |-> queued, rawResponses |-> rawResponses, errors |-> errors, ipp |-> ipp,
   enqueues |-> enqueues, fetches |-> fetches]

Store(s) ==
  /\ proc' = s.proc
  /\ currentRequests' = s.currentRequests
  /\ outstanding' = s.outstanding
  /\ queued' = s.queued
  /\ rawResponses' = s.rawResponses
  /\ errors' = s.errors
  /\ ipp' = s.ipp
  /\ enqueues' = s.enqueues
  /\ fetches' = s.fetches

\* enter(ip); through getCrawl the promise's resolver listens for 'done' first
enter(ip, viaGetCrawl) ==
  /\ proc = "idle"
  /\ promise' = (IF viaGetCrawl THEN "pending" ELSE "none")
  /\ startTime' = <<now>>
  /\ entryIP' = withDefaultPort(ip)
  /\ Store(crawl([Self EXCEPT !.proc = "running"], withDefaultPort(ip), 0))
  /\ now' = now + 1
  /\ UNCHANGED <<maxRequests, endTime, emitted, net, peersData, call>>

\* saveBody with a fault: the key is the global ipp left by normalizeIpp
\* instead of the parameter of crawl
saveBody_globalIpp(s, a, body) ==
  [s EXCEPT !.rawResponses[IF s.ipp.declared THEN s.ipp.value ELSE a] = body]

\* self.rawResponses[ipp] = body, ipp being the parameter of crawl
saveBody(s, a, body) == [s EXCEPT !.rawResponses[a] = body]

\* the callback of crawl, run by crawlOne's callback after currentRequests--
crawlCallback(s, a, hops, reply) ==
  LET d == dequeue(s, a)
      body == IF reply.kind = "json" THEN JsonDoc(reply.hasActive, reply.active)
              ELSE JsonNull
      saved == saveBody(d, a, body)
      e == IF d.proc # "running" THEN d
           ELSE IF reply.kind = "err" THEN [d EXCEPT !.errors[a] = reply.code]
           ELSE IF body = JsonNull \/ ~body.hasActive
                THEN [saved EXCEPT !.proc = "exception"]
           ELSE forEachPeer(saved, body.active, 1)
  IN IF e.proc # "running" THEN [state |-> e, more |-> TRUE]
     ELSE requestMore(e, hops, maxRequests)

\* The request library answers the i-th outstanding fetch with reply.  An
\* exception thrown in the callback is caught by nobody: it ends the process,
\* and the handlers of the other fetches never run.  When JSON.parse throws,
\* crawlOne's callback has not run: the fetch stays counted.
complete(i, reply) ==
  LET f == outstanding[i]
      a == f.ipp
  IN /\ proc = "running"
     /\ net[a] \in {NotAsked, reply}
     /\ net' = [net EXCEPT ![a] = reply]
     /\ now' = now + 1
     /\ UNCHANGED <<maxRequests, startTime, entryIP, peersData, call>>
     /\ IF reply.kind = "text"
        THEN \* JSON.parse throws inside the request callback
             /\ Store([Self EXCEPT !.proc = "exception"])
             /\ UNCHANGED <<endTime, emitted, promise>>
        ELSE LET s0 == [Self EXCEPT !.currentRequests = @ - 1,
                                    !.outstanding = RemoveAt(@, i)]
                 r == crawlCallback(s0, a, f.hops, reply)
             IN /\ Store(r.state)
                /\ IF r.more
                   THEN UNCHANGED <<endTime, emitted, promise>>
                   ELSE /\ endTime' = <<now>>
                        /\ emitted' = Append(emitted,
                                        [start |-> startTime, end |-> <<now>>,
                                         entry |-> entryIP])
                        /\ promise' = (IF promise = "pending" THEN "resolved"
                                       ELSE promise)

Enter == \E ip \in EntryInputs, viaGetCrawl \in BOOLEAN : enter(ip, viaGetCrawl)

Complete == \E i \in 1..Len(outstanding), reply \in Replies : complete(i, reply)

Next == Enter \/ Complete

Spec == Init /\ [][Next]_vars

\* the request library answers every fetch it was handed
FairSpec == Spec /\ WF_vars(Complete)

(* ------------- the queue primitives, called on a crawler --------------- *)
(* enqueue and dequeue are methods of the exported Crawler.  They are      *)
(* called here on a crawler whose addresses are each unseen, QUEUED,       *)
(* REQUESTING, crawled with success or crawled with an error.              *)

Trackings == {"unseen", "queued", "requesting", "result", "error"}

RECURSIVE QueueOf(_, _)
\* the queue that holds, in the order of sq, the addresses tracked as pending
QueueOf(sq, tr) ==
  IF sq = <<>> THEN <<>>
  ELSE LET a == Head(sq)
           rest == QueueOf(Tail(sq), tr)
       IN IF tr[a] = "queued" THEN <<[ipp |-> a, status |-> QUEUED]>> \o rest
          ELSE IF tr[a] = "requesting"
               THEN <<[ipp |-> a, status |-> REQUESTING]>> \o rest
          ELSE rest

AddrSeq == [i \in 1..NumHosts |-> withDefaultPort(<<"h" \o ToString(i)>>)]

InitQueue ==
  \E tr \in [Addrs -> Trackings] :
    /\ tr[AddrSeq[1]] \notin {"unseen", "queued"}
    /\ maxRequests = DefaultMaxRequests
    /\ queued = QueueOf(AddrSeq, tr)
    /\ currentRequests = Cardinality({a \in Addrs : tr[a] = "requesting"})
    /\ outstanding = [i \in 1..Len(SelectSeq(queued, LAMBDA e : e.status = REQUESTING)) |->
                        [ipp |-> SelectSeq(queued, LAMBDA e : e.status = REQUESTING)[i].ipp,
                         hops |-> 0]]
    /\ rawResponses = [a \in Addrs |->
                         IF tr[a] = "result" THEN JsonDoc(TRUE, <<>>) ELSE NoBody]
    /\ errors = [a \in Addrs |-> IF tr[a] = "error" THEN "ETIMEDOUT" ELSE Absent]
    /\ net = [a \in Addrs |->
                IF tr[a] = "result" THEN JsonReply(TRUE, <<>>)
                ELSE IF tr[a] = "error" THEN ErrReply("ETIMEDOUT")
                ELSE NotAsked]
    /\ enqueues = [a \in Addrs |-> 0]
    /\ fetches = [a \in Addrs |-> 0]
    /\ proc = "running"
    /\ ipp = Undeclared
    /\ startTime = <<0>>
    /\ endTime = <<>>
    /\ entryIP = AddrSeq[1]
    /\ emitted = <<>>
    /\ promise = "none"
    /\ now = 1
    /\ peersData = NoPeers
    /\ call = NoCall

\* crawler.enqueue(a), called once
apiEnqueue(a) ==
  /\ proc = "running"
  /\ call = NoCall
  /\ Store(enqueue(Self, a))
  /\ call' = [op |-> "enqueue", ipp |-> a]
  /\ UNCHANGED <<maxRequests, startTime, endTime, entryIP, emitted, promise, net, now,
                 peersData>>

\* crawler.dequeue(a), called once
apiDequeue(a) ==
  /\ proc = "running"
  /\ call = NoCall
  /\ Store(dequeue(Self, a))
  /\ call' = [op |-> "dequeue", ipp |-> a]
  /\ UNCHANGED <<maxRequests, startTime, endTime, entryIP, emitted, promise, net, now,
                 peersData>>

ApiEnqueue == \E a \in Addrs : apiEnqueue(a)

ApiDequeue == \E a \in Addrs : apiDequeue(a)

NextQueue == ApiEnqueue \/ ApiDequeue

SpecQueue == InitQueue /\ [][NextQueue]_vars

(* ------------------ normalizeIpp, called on its own -------------------- *)
(* normalizeIpp is exported.  It is called here any number of times, on a  *)
(* module that was just loaded: the global ipp is not declared yet.        *)

\* the ip arguments: absent, "", and hosts with and without ':port'
RawHosts ==
  {<<>>, <<"">>, <<"10.0.0.1">>, <<"10.0.0.1", "6561">>, <<"10.0.0.1", "">>,
   <<"", "6561">>, <<"h2">>, <<"h2", "6561", "7">>, <<"h3", "51235">>}

\* the port arguments: absent, or a port (a number prints as its digits)
RawPorts == {"", "8080", "6561", "51235"}

\* a crawler that was constructed and is left alone
Untouched ==
  /\ Crawler(0)
  /\ proc = "idle"
  /\ startTime = <<>>
  /\ endTime = <<>>
  /\ entryIP = <<>>
  /\ emitted = <<>>
  /\ promise = "none"
  /\ outstanding = <<>>
  /\ net = [a \in Addrs |-> NotAsked]
  /\ now = 0
  /\ enqueues = [a \in Addrs |-> 0]
  /\ fetches = [a \in Addrs |-> 0]

CrawlerVars ==
  <<proc, maxRequests, currentRequests, rawResponses, queued, errors, startTime,
    endTime, entryIP, emitted, promise, outstanding, net, now, enqueues, fetches>>

InitNorm ==
  /\ Untouched
  /\ ipp = Undeclared
  /\ peersData = NoPeers
  /\ call = NoCall

\* normalizeIpp(ip, port): the call throws when it reads the undeclared ipp
apiNormalizeIpp(ip, port) ==
  LET r == normalizeIpp(ip, port, ipp)
  IN /\ ipp' = r
     /\ call' = [op |-> "normalizeIpp", ip |-> ip, port |-> port,
                 threw |-> ~r.declared, result |-> r.value]
     /\ UNCHANGED <<CrawlerVars, peersData>>

ApiNormalizeIpp == \E ip \in RawHosts, port \in RawPorts : apiNormalizeIpp(ip, port)

NextNorm == ApiNormalizeIpp

SpecNorm == InitNorm /\ [][NextNorm]_vars

(* ------------------ savePeerData, called on its own -------------------- *)

InitPeers ==
  /\ Untouched
  /\ ipp = Undeclared
  /\ peersData = NoPeers
  /\ call = NoCall

apiSavePeerData(pk, data, defaults) ==
  /\ peersData' = savePeerData(peersData, pk, data, defaults)
  /\ call' = [op |-> "savePeerData", pk |-> pk, data |-> data, defaults |-> defaults]
  /\ UNCHANGED <<CrawlerVars, ipp>>

ApiSavePeerData ==
  \E pk \in PubKeys, data \in Views, defaults \in BOOLEAN :
    apiSavePeerData(pk, data, defaults)

NextPeers == ApiSavePeerData

SpecPeers == InitPeers /\ [][NextPeers]_vars

(* ----------------- normalizePubKey, called on its own ------------------ *)
(* A string is the sequence of its characters.  encode_check appends the   *)
(* first four bytes of a double SHA-256 of its input; the hash is not      *)
(* computed here, the four bytes are a parameter, check, of the encoding.  *)

\* sjcl.codec.base64._chars
Base64Chars ==
  <<
    "A", "B", "C", "D", "E", "F", "G", "H", "I", "J", "K", "L", "M",
    "N", "O", "P", "Q", "R", "S", "T", "U", "V", "W", "X", "Y", "Z",
    "a", "b", "c", "d", "e", "f", "g", "h", "i", "j", "k", "l", "m",
    "n", "o", "p", "q", "r", "s", "t", "u", "v", "w", "x", "y", "z",
    "0", "1", "2", "3", "4", "5", "6", "7", "8", "9", "+", "/" >>

\* the alphabet 'ripple' of ripple.Base
RippleChars ==
  <<
    "r", "p", "s", "h", "n", "a", "f", "3", "9", "w", "B", "U", "D",
    "N", "E", "G", "H", "J", "K", "L", "M", "4", "P", "Q", "R", "S",
    "T", "7", "V", "W", "X", "Y", "Z", "2", "b", "c", "d", "e", "C",
    "g", "6", "5", "j", "k", "m", "8", "o", "F", "q", "i", "1", "t",
    "u", "v", "A", "x", "y", "z" >>

\* ripple.Base.VER_NODE_PUBLIC
VER_NODE_PUBLIC == 28

\* alphabet.indexOf(c), for a character of the alphabet
indexOf(alphabet, c) == (CHOOSE i \in 1..Len(alphabet) : alphabet[i] = c) - 1

\* the bytes of a sequence of six-bit values: every 8 whole bits are a byte,
\* the bits left over at the end are dropped
RECURSIVE sextetBytes(_)
sextetBytes(sx) ==
  IF Len(sx) >= 4
  THEN LET v == sx[1] * 262144 + sx[2] * 4096 + sx[3] * 64 + sx[4]
       IN <<v \div 65536, (v \div 256) % 256, v % 256>> \o sextetBytes(SubSeq(sx, 5, Len(sx)))
  ELSE IF Len(sx) = 3
  THEN LET v == (sx[1] * 4096 + sx[2] * 64 + sx[3]) \div 4
       IN <<v \div 256, v % 256>>
  ELSE IF Len(sx) = 2
  THEN <<(sx[1] * 64 + sx[2]) \div 16>>
  ELSE <<>>

\* sjcl.codec.bytes.fromBits(sjcl.codec.base64.toBits(str))
base64Bytes(str) == sextetBytes([i \in 1..Len(str) |-> indexOf(Base64Chars, str[i])])

\* new BigInteger(input): the number as limbs of 24 bits, first limb first
limbsOf(bytes) ==
  LET pad == (3 - (Len(bytes) % 3)) % 3
      b(i) == IF i <= pad THEN 0 ELSE bytes[i - pad]
  IN [j \in 1..((Len(bytes) + pad) \div 3) |->
        b(3 * j - 2) * 65536 + b(3 * j - 1) * 256 + b(3 * j)]

\* bi_value.divRemTo(58, q, r)
RECURSIVE divRemFrom(_, _, _, _)
divRemFrom(limbs, i, carry, q) ==
  IF i > Len(limbs) THEN [q |-> q, r |-> carry]
  ELSE LET cur == carry * 16777216 + limbs[i]
       IN divRemFrom(limbs, i + 1, cur % 58, Append(q, cur \div 58))

divRem58(limbs) == divRemFrom(limbs, 1, 0, <<>>)

\* the digits of the number in base 58, first digit first
RECURSIVE base58Digits(_)
base58Digits(limbs) ==
  IF \A i \in 1..Len(limbs) : limbs[i] = 0 THEN <<>>
  ELSE LET d == divRem58(limbs)
       IN Append(base58Digits(d.q), RippleChars[d.r + 1])

\* the bytes that are 0 at the front of the input, one alphabet[0] each
RECURSIVE leadingZeros(_)
leadingZeros(bytes) ==
  IF bytes # <<>> /\ bytes[1] = 0
  THEN <<RippleChars[1]>> \o leadingZeros(Tail(bytes))
  ELSE <<>>

\* ripple.Base.encode(input)
encode(input) == leadingZeros(input) \o base58Digits(limbsOf(input))

\* ripple.Base.encode_check(version, input), check being the hash bytes
encode_check(version, input, check) == encode(<<version>> \o input \o check)

normalizePubKey(pubKeyStr, check) ==
  IF Len(pubKeyStr) > 50 /\ pubKeyStr[1] = "n"
  THEN pubKeyStr
  ELSE encode_check(VER_NODE_PUBLIC, base64Bytes(pubKeyStr), check)

\* a character n times
Repeat(c, n) == [i \in 1..n |-> c]

\* the keys: short strings, base64 of 33 bytes (44 characters), and strings
\* of more than 50 characters with and without a leading 'n'
PubKeyStrs ==
  UNION {[1..n -> {"A", "n", "/"}] : n \in 0..3}
    \cup {Repeat("A", 44), Repeat("/", 44), <<"n">> \o Repeat("A", 43),
          <<"n">> \o Repeat("r", 51), Repeat("A", 52), Repeat("A", 43)}

\* the four hash bytes the encoding may append
CheckBytes == {<<0, 0, 0, 0>>, <<255, 52, 86, 120>>}

InitKeys ==
  /\ Untouched
  /\ ipp = Undeclared
  /\ peersData = NoPeers
  /\ call = NoCall

\* normalizePubKey(k), and normalizePubKey of what it returned
apiNormalizePubKey(k, check, check2) ==
  LET once == normalizePubKey(k, check)
  IN /\ call' = [op |-> "normalizePubKey", key |-> k, once |-> once,
                 twice |-> normalizePubKey(once, check2)]
     /\ UNCHANGED <<CrawlerVars, ipp, peersData>>

ApiNormalizePubKey ==
  \E k \in PubKeyStrs, check \in CheckBytes, check2 \in CheckBytes :
    apiNormalizePubKey(k, check, check2)

NextKeys == ApiNormalizePubKey

SpecKeys == InitKeys /\ [][NextKeys]_vars

(* --------------------------- derived notions --------------------------- *)

\* the keys of the report's data and errors
DataKeys == {a \in Addrs : rawResponses[a] # NoBody}
ErrorKeys == {a \in Addrs : errors[a] # Absent}

QueuedKeys == {a \in KeySet(queued) : Status(queued, a) = QUEUED}
InFlightKeys == {a \in KeySet(queued) : Status(queued, a) = REQUESTING}

Reported == emitted # <<>>

\* the addresses a peer list names: its descriptors that carry an ip
Named(active) ==
  {normalizeIpp(active[i].ip, active[i].port, Undeclared).value :
     i \in {j \in 1..Len(active) : active[j].ip \notin {<<>>, <<"">>}}}

\* the node at a answers with a document holding overlay.active
Succeeds(a) == net[a].kind = "json" /\ net[a].hasActive
\* the node at a answers with an error
Fails(a) == net[a].kind = "err"

\* the addresses reachable from the entry through the peer lists of the nodes
\* whose fetch succeeds
RECURSIVE ReachFrom(_)
ReachFrom(S) ==
  LET T == S \cup UNION {Named(net[a].active) : a \in {x \in S : Succeeds(x)}}
  IN IF T = S THEN S ELSE ReachFrom(T)

Reach == ReachFrom({entryIP})

(* -------------------------------- claims ------------------------------- *)

\* C1: the fetches issued and not yet completed never number more than
\* maxRequests, and currentRequests equals their number between handlers.
C1_InFlightWithinCap ==
  /\ Len(outstanding) <= maxRequests
  /\ currentRequests = Len(outstanding)

\* C1 witness: under a cap of 1 a fetch is outstanding while another address
\* waits in the queue, after an earlier fetch completed.
C1_Witness ==
  /\ maxRequests = 1
  /\ Len(outstanding) = 1
  /\ QueuedKeys # {}
  /\ DataKeys # {}

\* C2 (as claimed): no address is stored as QUEUED by enqueue more than once,
\* and none is fetched more than once.
C2_EnqueuedAtMostOnce ==
  \A a \in Addrs : enqueues[a] <= 1 /\ fetches[a] <= 1

\* C3 (as claimed): every address that is in the queue eventually leaves it
\* and is then held by exactly one of rawResponses and errors.
C3_QueuedEndsDone ==
  \A a \in Addrs :
    (a \in KeySet(queued)) ~>
      (a \notin KeySet(queued) /\ ((a \in DataKeys) # (a \in ErrorKeys)))

\* C4 (as claimed): the traversal is never in a state where addresses are
\* QUEUED, no fetch is outstanding and no report has been emitted.
C4_NeverStalled ==
  ~(QueuedKeys # {} /\ Len(outstanding) = 0 /\ ~Reported)

\* C5: when the report is emitted, the keys of data and errors together are
\* the addresses reachable from the entry through the peer lists of the nodes
\* fetched with success; data maps those nodes to their raw response and
\* errors holds the others.
C5_ReportCoversReachable ==
  Reported =>
    /\ DataKeys \cup ErrorKeys = Reach
    /\ \A a \in Reach :
         IF Succeeds(a)
         THEN rawResponses[a] = JsonDoc(TRUE, net[a].active) /\ a \notin ErrorKeys
         ELSE Fails(a) /\ a \in ErrorKeys /\ a \notin DataKeys

\* C5 witness: the entry lists X and Y, X lists Y and Z, all four fetches
\* succeeded and the report was emitted.
C5_Witness ==
  /\ Reported
  /\ Cardinality(DataKeys) = 4
  /\ ErrorKeys = {}
  /\ \E x, y, z \in Addrs \ {entryIP} :
       /\ Cardinality({x, y, z}) = 3
       /\ Named(net[entryIP].active) = {x, y}
       /\ Named(net[x].active) = {y, z}

\* C6 (as claimed): once the fetch of X has failed, errors holds X's code,
\* data does not hold X, and the traversal still completes: it has emitted
\* its report, or the process is alive with a fetch yet to be answered; and
\* the report covers exactly the addresses reachable through successful nodes.
C6_FailureStillCompletes ==
  \A x \in Addrs :
    (Fails(x) /\ x \in ErrorKeys) =>
      /\ errors[x] = net[x].code
      /\ x \notin DataKeys
      /\ Reported \/ (proc = "running" /\ outstanding # <<>>)
      /\ Reported => DataKeys \cup ErrorKeys = Reach

\* C7 (as claimed): an address held by rawResponses or errors is not put
\* back into the queue and is not fetched again.
C7_DoneStaysDone ==
  [][\A a \in DataKeys \cup ErrorKeys :
       a \notin KeySet(queued') /\ fetches'[a] = fetches[a]]_vars

\* C8: 'done' is emitted at most once, and the completion that emits it
\* leaves the queue empty, no fetch outstanding and currentRequests at 0.
C8_DoneOnceWhenDrained ==
  [][emitted' # emitted =>
       /\ emitted = <<>>
       /\ Len(emitted') = 1
       /\ queued' = <<>>
       /\ outstanding' = <<>>
       /\ currentRequests' = 0]_vars

\* C8 witness: the report was emitted after at least three addresses were
\* crawled under a cap of 2.
C8_Witness ==
  /\ Len(emitted) = 1
  /\ maxRequests = 2
  /\ Cardinality(DataKeys \cup ErrorKeys) >= 3

\* the data and errors maps that the network determines for the reachable set R
ExpectedData(R) ==
  [a \in Addrs |->
     IF a \in R /\ Succeeds(a) THEN JsonDoc(TRUE, net[a].active) ELSE NoBody]
ExpectedErrors(R) ==
  [a \in Addrs |-> IF a \in R /\ Fails(a) THEN net[a].code ELSE Absent]

\* C9: the data and errors maps of the report are determined by the network
\* (the reply of each address) and the entry alone, whatever the order of the
\* completions and the cap.
C9_ReportIndependentOfOrder ==
  Reported =>
    LET R == Reach
    IN rawResponses = ExpectedData(R) /\ errors = ExpectedErrors(R)

\* C9 witness: a report holding at least two successes and a failure with an
\* error code, produced under a cap that lets fetches overlap.
C9_Witness ==
  /\ Reported
  /\ maxRequests >= 2
  /\ Cardinality(DataKeys) >= 2
  /\ \E a \in ErrorKeys : errors[a] \in ErrorCodes

\* C10: once 'done' was emitted, rawResponses, errors, the queue and endTime
\* do not change, no fetch is issued and no completion handler runs.
C10_FinalAfterDone ==
  [][Reported =>
       /\ rawResponses' = rawResponses
       /\ errors' = errors
       /\ queued' = queued
       /\ endTime' = endTime
       /\ fetches' = fetches
       /\ outstanding' = outstanding]_vars

\* C10 witness: the report was emitted, endTime is set and the promise of
\* getCrawl is resolved.
C10_Witness ==
  /\ Reported
  /\ endTime # <<>>
  /\ promise = "resolved"
  /\ DataKeys # {}

\* C16 (as claimed): a reply that cannot be decoded, or that is empty or holds
\* no overlay.active, is a failure of that node: its address is out of the
\* queue and in errors, and the traversal goes on.
C16_UndecodableIsNodeFailure ==
  \A a \in Addrs :
    (net[a].kind \in {"text", "empty"} \/ (net[a].kind = "json" /\ ~net[a].hasActive)) =>
      /\ proc = "running"
      /\ a \in ErrorKeys
      /\ a \notin KeySet(queued)
      /\ currentRequests = Len(outstanding)

\* C17: between handlers of a running traversal, an address waits as QUEUED
\* only while currentRequests is at maxRequests.
C17_WorkConserving ==
  (proc = "running" /\ QueuedKeys # {}) => currentRequests = maxRequests

\* C17 witness: under a cap of 1, after two addresses were crawled, a fetch is
\* outstanding and another address waits.
C17_Witness ==
  /\ proc = "running"
  /\ maxRequests = 1
  /\ currentRequests = 1
  /\ QueuedKeys # {}
  /\ Cardinality(DataKeys \cup ErrorKeys) >= 2

\* the place of the key a in the queue: keys are kept in the order enqueued
Pos(q, a) == CHOOSE i \in 1..Len(q) : q[i].ipp = a

\* C18: a step that issues the fetch of a queued address leaves waiting only
\* addresses that were enqueued after it; and a step never reorders the keys
\* that stay in the queue.
C18_AdmittedInDiscoveryOrder ==
  [][/\ \A a \in KeySet(queued') :
          (fetches'[a] > fetches[a]) =>
            \A b \in {k \in KeySet(queued') : Status(queued', k) = QUEUED} :
              Pos(queued', a) < Pos(queued', b)
     /\ \A a, b \in KeySet(queued) \cap KeySet(queued') :
          (Pos(queued, a) < Pos(queued, b)) => (Pos(queued', a) < Pos(queued', b))]_vars

\* C18 witness: under a cap of 1 the earlier of two queued addresses is being
\* fetched while the later one waits behind it.
C18_Witness ==
  /\ maxRequests = 1
  /\ Len(queued) = 2
  /\ queued[1].status = REQUESTING
  /\ queued[2].status = QUEUED
  /\ enqueues[queued[1].ipp] = 1

\* C19 (as claimed): the keys of the queue, of rawResponses and of errors are
\* pairwise disjoint.
C19_KeySetsDisjoint ==
  /\ KeySet(queued) \cap DataKeys = {}
  /\ KeySet(queued) \cap ErrorKeys = {}
  /\ DataKeys \cap ErrorKeys = {}

\* C20: abortIfNot never fires in a traversal: the process does not exit, and
\* every fetch awaiting its callback has its address in the queue as
\* REQUESTING, so the dequeue of its handler finds it.
C20_ContractChecksHold ==
  /\ proc # "exit"
  /\ \A i \in 1..Len(outstanding) : outstanding[i].ipp \in InFlightKeys

\* C20 witness: an address that enqueueIfNeeded enqueued was fetched and
\* dequeued by its handler, and the traversal runs on.
C20_Witness ==
  /\ proc = "running"
  /\ \E a \in DataKeys \cup ErrorKeys : enqueues[a] >= 1 /\ a \notin KeySet(queued)
  /\ outstanding # <<>>

\* C11 (as claimed): enqueue of an address that is a key of rawResponses,
\* errors or the queue ends in the contract fault and changes none of the
\* three maps; so does dequeue of an address that is no key of the queue.
C11_ContractFaults ==
  [][\A a \in Addrs :
       /\ (call' = [op |-> "enqueue", ipp |-> a]
             /\ a \in DataKeys \cup ErrorKeys \cup KeySet(queued)) =>
            (proc' = "exit" /\ queued' = queued
               /\ rawResponses' = rawResponses /\ errors' = errors)
       /\ (call' = [op |-> "dequeue", ipp |-> a] /\ a \notin KeySet(queued)) =>
            (proc' = "exit" /\ queued' = queued
               /\ rawResponses' = rawResponses /\ errors' = errors)]_vars

\* C12: for a non-empty ip, normalizeIpp returns the part of ip before its
\* first ':' , a ':' and a port: the port argument if given, else the port
\* after the first ':' of ip if there is one, else 51235.
C12_PortPrecedence ==
  (call.op = "normalizeIpp" /\ call.ip \notin {<<>>, <<"">>}) =>
    /\ ~call.threw
    /\ Len(call.result) = 2
    /\ call.result[1] = call.ip[1]
    /\ call.result[2] # ""
    /\ call.result[2] =
         (IF call.port # "" THEN call.port
          ELSE IF Len(call.ip) >= 2 /\ call.ip[2] # "" THEN call.ip[2]
          ELSE "51235")

\* C12 witness: normalizeIpp("10.0.0.1:6561", "8080") returned "10.0.0.1:8080".
C12_Witness ==
  /\ call.op = "normalizeIpp"
  /\ call.ip = <<"10.0.0.1", "6561">>
  /\ call.port = "8080"
  /\ call.result = <<"10.0.0.1", "8080">>

\* C13 (as claimed): normalizeIpp called without an ip does not throw and
\* returns nothing, whatever was normalized before.
C13_AbsentHostGivesNothing ==
  (call.op = "normalizeIpp" /\ call.ip \in {<<>>, <<"">>}) =>
    (~call.threw /\ call.result = <<>>)

\* C14 (as claimed): when savePeerData is called without defaults, after a
\* first call or after another call without defaults, a field other than
\* 'type' that the record already holds keeps its value.
C14_FirstViewWins ==
  [][(/\ call'.op = "savePeerData"
      /\ ~call'.defaults
      /\ (call.op = "none" \/ ~call.defaults)) =>
       \A k \in DataFields \ {"type"} :
         peersData[call'.pk].map[k] # Undefined =>
           peersData'[call'.pk].map[k] = peersData[call'.pk].map[k]]_vars

\* C15 (as claimed): normalizePubKey is idempotent: what the decode and
\* re-encode branch returns has more than 50 characters and a leading 'n',
\* so that normalizing it again returns it unchanged.
C15_Idempotent ==
  call.op = "normalizePubKey" =>
    /\ Len(call.once) > 50
    /\ call.once[1] = "n"
    /\ call.twice = call.once

====
